---- MODULE Spec2Model ----
(***************************************************************************)
(* A model of posts/lenet.ipynb: the LenetPool and LenetSigmoid layers,    *)
(* the Lenet network (fourteen stages wrapped in nn.Sequential), the       *)
(* run_tests shape utility and the train/evaluate driver.                  *)
(*                                                                         *)
(* A tensor of the network is modelled by its shape (a sequence of sizes)  *)
(* and by the sequence of primitive operations that produced its values    *)
(* from the input; the two custom layers are also modelled on values, on   *)
(* small maps and vectors (SpecPool, SpecAct).                             *)
(***************************************************************************)
EXTENDS Integers, Sequences, FiniteSets, TLC

(***************************************************************************)
(* Bounds of the model.                                                    *)
(***************************************************************************)
MaxBatch == 2
MaxChannels == 2
Margin == 4

(***************************************************************************)
(* Constants of the program.                                               *)
(***************************************************************************)
ImageSize == 32

\* the class counts tried: invalid ones, small ones, MNIST's 10, EMNIST's 47
NumClassesSet == {-1, 0, 1, 2, 10, 47}

(***************************************************************************)
(* State.  Each specification below moves one group of variables and       *)
(* leaves the others at their initial values.                              *)
(***************************************************************************)
\* Spec: one call of run_tests(shape, num_classes), or one construction of
\* Lenet(num_classes) followed by model(data)
VARIABLES
    call,         \* "run_tests" or "forward": which entry point runs
    shape,        \* the shape of the input tensor
    num_classes,  \* the argument of Lenet(num_classes)
    pc,           \* the position in the entry point
    layers,       \* model.layers once the model is constructed
    x,            \* run_tests' x; the input batch of a forward call
    i,            \* how many layers the loop of run_tests has applied
    printed,      \* the lines run_tests has printed: (class name, shape)
    output        \* the value model(data) returned

mainVars == <<call, shape, num_classes, pc, layers, x, i, printed, output>>

\* SpecPool: one LenetPool, constructed and called on one plane of values
VARIABLES
    pool_pc,    \* "start", "built", "pooled", "returned" or "raised"
    pool_args,  \* the arguments of LenetPool(...)
    pool_x,     \* the plane given to forward
    pool_lin,   \* self.linear: its weight and bias
    pool_sum,   \* the output of self.sum_pool, before the remap
    pool_out    \* the value forward returned

poolVars == <<pool_pc, pool_args, pool_x, pool_lin, pool_sum, pool_out>>

\* SpecAct: one LenetSigmoid, constructed and called on one vector of values
VARIABLES
    act_pc,    \* "start", "built", "S", "act", "returned" or "raised"
    act_args,  \* the arguments of LenetSigmoid(...)
    act_x,     \* the input vector
    act_S,     \* self.S: a weight, no bias
    act_z,     \* S(x)
    act_t,     \* act(S(x)), in units of 2^-24
    act_y      \* A * act(S(x)), in units of 2^-23

actVars == <<act_pc, act_args, act_x, act_S, act_z, act_t, act_y>>

\* SpecCalls: one Lenet called several times, between mode changes and
\* optimizer steps
VARIABLES
    rc_pc,           \* "start", "built" or "raised"
    rc_num_classes,  \* the argument of Lenet(num_classes)
    rc_layers,       \* model.layers
    training,        \* model.training, the flag train() and eval() set
    params,          \* the version of each stage's parameters: the steps so far
    generator,       \* the state of torch's default random number generator
    calls            \* the forward calls so far, each with what it read and returned

callVars == <<rc_pc, rc_num_classes, rc_layers, training, params, generator, calls>>

\* SpecDriver: the train/evaluate driver of the notebook's last cell
VARIABLES
    d_pc,          \* the position in the driver
    d_train_size,  \* len(train_dataset)
    d_test_size,   \* len(test_dataset)
    d_created,     \* how many times the parameters were created
    d_params,      \* the version of the parameters: the writes to them so far
    d_training,    \* model.training
    d_grad,        \* whether gradient tracking is enabled
    d_epoch,       \* epoch, the epochs finished so far
    d_batch,       \* the training batches of this epoch finished so far
    d_steps,       \* the calls of optimizer.step() so far
    d_loss_terms,  \* how many batch losses total_loss holds
    d_eval,        \* what model.eval() found: the epochs done and the parameters
    d_tbatch,      \* the test batches finished so far
    d_correct,     \* correct
    d_total,       \* total
    d_fwd,         \* the forward passes since the last optimizer step
    d_bwd,         \* the backward passes since the last optimizer step
    d_accuracy     \* accuracy, -1 before it is computed

drvVars == <<d_pc, d_train_size, d_test_size, d_created, d_params, d_training,
             d_grad, d_epoch, d_batch, d_steps, d_loss_terms, d_eval, d_tbatch,
             d_correct, d_total, d_fwd, d_bwd, d_accuracy>>

vars == <<mainVars, poolVars, actVars, callVars, drvVars>>

MainFrame == UNCHANGED <<poolVars, actVars, callVars, drvVars>>

PoolFrame == UNCHANGED <<mainVars, actVars, callVars, drvVars>>

ActFrame == UNCHANGED <<mainVars, poolVars, callVars, drvVars>>

CallsFrame == UNCHANGED <<mainVars, poolVars, actVars, drvVars>>

DrvFrame == UNCHANGED <<mainVars, poolVars, actVars, callVars>>

(***************************************************************************)
(* Tensors: ok is FALSE for the exception a layer raises.                  *)
(***************************************************************************)
Raised == [ok |-> FALSE, shape |-> <<>>, ops |-> <<>>]

Tensor(dims, ops) == [ok |-> TRUE, shape |-> dims, ops |-> ops]

RECURSIVE Prod(_)
Prod(s) == IF s = <<>> THEN 1 ELSE Head(s) * Prod(Tail(s))

SetLast(s, v) == [s EXCEPT ![Len(s)] = v]

(***************************************************************************)
(* The library layers, on shapes.                                          *)
(***************************************************************************)
\* a convolution padded to keep the spatial size (padding = k \div 2)
Conv2dPadded(cin, cout, k, t) ==
    IF ~t.ok THEN Raised
    ELSE LET n == Len(t.shape) IN
         IF n \in {3, 4} /\ t.shape[n - 2] = cin
         THEN Tensor([d \in 1..n |-> IF d = n - 2 THEN cout ELSE t.shape[d]],
                     Append(t.ops, "conv2d"))
         ELSE Raised

\* nn.Conv2d(cin, cout, k): no padding, stride 1; a 3-D input is unbatched
Conv2d(cin, cout, k, t) ==
    IF ~t.ok THEN Raised
    ELSE LET n == Len(t.shape) IN
         IF n \in {3, 4} /\ t.shape[n - 2] = cin
            /\ t.shape[n - 1] >= k /\ t.shape[n] >= k
         THEN Tensor([d \in 1..n |->
                        IF d = n - 2 THEN cout
                        ELSE IF d >= n - 1 THEN t.shape[d] - k + 1
                        ELSE t.shape[d]],
                     Append(t.ops, "conv2d"))
         ELSE Raised

\* nn.Linear(in_features, out_features, bias): acts on the last axis only
Linear(in_features, out_features, bias, t) ==
    IF ~t.ok THEN Raised
    ELSE LET n == Len(t.shape) IN
         IF n >= 1 /\ t.shape[n] = in_features
         THEN Tensor(SetLast(t.shape, out_features),
                     Append(t.ops, IF bias THEN "affine" ELSE "linear"))
         ELSE Raised

\* nn.Tanh(): elementwise
Tanh(t) == IF ~t.ok THEN Raised ELSE Tensor(t.shape, Append(t.ops, "tanh"))

\* self.A*t: elementwise
MulA(t) == IF ~t.ok THEN Raised ELSE Tensor(t.shape, Append(t.ops, "mulA"))

\* the output size of a pooling window with ceil_mode on: the size rounds up
PoolOutCeil(size, k, stride) == ((size - k + stride - 1) \div stride) + 1

\* the output size of a pooling window (ceil_mode is off: the size rounds down)
PoolOut(size, k, stride) == ((size - k) \div stride) + 1

\* nn.LPPool2d(1, kernel_size, stride): the last two axes of a 3-D or 4-D input
LPPool2d(k, stride, t) ==
    IF ~t.ok THEN Raised
    ELSE LET n == Len(t.shape) IN
         IF n \in {3, 4} /\ t.shape[n - 1] >= k /\ t.shape[n] >= k
         THEN Tensor([d \in 1..n |->
                        IF d >= n - 1 THEN PoolOut(t.shape[d], k, stride)
                        ELSE t.shape[d]],
                     Append(t.ops, "sumpool"))
         ELSE Raised

\* nn.Flatten(): start_dim 1, all the later axes into one
Flatten(t) ==
    IF ~t.ok THEN Raised
    ELSE IF Len(t.shape) >= 2
         THEN Tensor(<<t.shape[1], Prod(Tail(t.shape))>>, Append(t.ops, "flatten"))
         ELSE Raised

(***************************************************************************)
(* The layers of the notebook.                                             *)
(***************************************************************************)
\* LenetPool.forward: layers = Sequential(sum_pool, linear)
LenetPool(kernel_size, sum_stride, in_features, out_features, t) ==
    Linear(in_features, out_features, TRUE, LPPool2d(kernel_size, sum_stride, t))

\* LenetSigmoid.forward: t = S(t); t = act(t); t = A*t
LenetSigmoid(in_features, out_features, t) ==
    MulA(Tanh(Linear(in_features, out_features, FALSE, t)))

\* one stage of Lenet.layers, as constructed
Stage(name, kind, a, b, c, d) ==
    [name |-> name, kind |-> kind, a |-> a, b |-> b, c |-> c, d |-> d]

\* Lenet.__init__: the Sequential block, in order
LenetLayers(classes) ==
    << Stage("c1", "Conv2d", 1, 6, 5, 0),
       Stage("a1", "LenetSigmoid", 28, 28, 0, 0),
       Stage("s2", "LenetPool", 2, 2, 14, 14),
       Stage("a2", "LenetSigmoid", 14, 14, 0, 0),
       Stage("c3", "Conv2d", 6, 16, 5, 0),
       Stage("a3", "LenetSigmoid", 10, 10, 0, 0),
       Stage("s4", "LenetPool", 2, 2, 5, 5),
       Stage("a4", "LenetSigmoid", 5, 5, 0, 0),
       Stage("flatten", "Flatten", 0, 0, 0, 0),
       Stage("f5", "Linear", 400, 120, 0, 0),
       Stage("a5", "LenetSigmoid", 120, 120, 0, 0),
       Stage("f6", "Linear", 120, 84, 0, 0),
       Stage("a6", "LenetSigmoid", 84, 84, 0, 0),
       Stage("f7", "Linear", 84, classes, 0, 0) >>

\* nn.Linear's constructor allocates an (out_features, in_features) weight:
\* a negative size raises, a zero size is allowed
LenetConstructs(classes) == classes >= 0

\* layer(t) for one stage of the Sequential block
Apply(layer, t) ==
    CASE layer.kind = "Conv2d" -> Conv2d(layer.a, layer.b, layer.c, t)
      [] layer.kind = "LenetSigmoid" -> LenetSigmoid(layer.a, layer.b, t)
      [] layer.kind = "LenetPool" -> LenetPool(layer.a, layer.b, layer.c, layer.d, t)
      [] layer.kind = "Flatten" -> Flatten(t)
      [] layer.kind = "Linear" -> Linear(layer.a, layer.b, TRUE, t)

\* nn.Sequential.forward: every layer in order, each on the previous output
RECURSIVE Sequential(_, _)
Sequential(mods, t) ==
    IF mods = <<>> THEN t ELSE Sequential(Tail(mods), Apply(Head(mods), t))

\* a forward pass that normalises the class scores after the last layer
LenetForwardSoftmax(mods, t) ==
    LET r == Sequential(mods, t)
    IN IF r.ok THEN Tensor(r.shape, Append(r.ops, "softmax")) ELSE Raised

\* Lenet.forward
LenetForward(mods, t) == Sequential(mods, t)

(***************************************************************************)
(* Spec: run_tests(shape, num_classes), and Lenet(num_classes) followed by *)
(* model(data).                                                            *)
(***************************************************************************)
NoTensor == Tensor(<<>>, <<>>)

\* the input shapes tried: batched (b, c, H, W) and unbatched (c, H, W)
Sizes == (ImageSize - Margin)..(ImageSize + Margin)

Shapes4 == {<<b, c, h, w>> : b \in 1..MaxBatch, c \in 1..MaxChannels,
                             h \in Sizes, w \in Sizes}

Shapes3 == {<<c, h, w>> : c \in 1..MaxChannels, h \in Sizes, w \in Sizes}

Shapes == Shapes4 \cup Shapes3

MainInit ==
    /\ call \in {"run_tests", "forward"}
    /\ shape \in Shapes
    /\ num_classes \in NumClassesSet
    /\ pc = "start"
    /\ layers = <<>>
    /\ x = IF call = "forward" THEN Tensor(shape, <<"data">>) ELSE NoTensor
    /\ i = 0
    /\ printed = <<>>
    /\ output = NoTensor

\* run_tests: x = torch.randn(shape)
RunTestsRandn ==
    /\ call = "run_tests" /\ pc = "start"
    /\ x' = Tensor(shape, <<"randn">>)
    /\ pc' = "randn"
    /\ UNCHANGED <<call, shape, num_classes, layers, i, printed, output>>
    /\ MainFrame

\* run_tests: model = Lenet(num_classes)
RunTestsLenet ==
    /\ call = "run_tests" /\ pc = "randn"
    /\ IF LenetConstructs(num_classes)
       THEN layers' = LenetLayers(num_classes) /\ pc' = "loop"
       ELSE layers' = layers /\ pc' = "raised"
    /\ UNCHANGED <<call, shape, num_classes, x, i, printed, output>>
    /\ MainFrame

\* a loop that prints the shape before it applies the layer
RunTestsLayerPrintsInput ==
    /\ call = "run_tests" /\ pc = "loop" /\ i < Len(layers)
    /\ LET r == Apply(layers[i + 1], x) IN
       IF r.ok
       THEN /\ x' = r
            /\ i' = i + 1
            /\ printed' = Append(printed, <<layers[i + 1].kind, x.shape>>)
            /\ pc' = pc
       ELSE /\ pc' = "raised"
            /\ UNCHANGED <<x, i, printed>>
    /\ UNCHANGED <<call, shape, num_classes, layers, output>>
    /\ MainFrame

\* run_tests: one turn of the loop, x = layer(x) and the print
RunTestsLayer ==
    /\ call = "run_tests" /\ pc = "loop" /\ i < Len(layers)
    /\ LET r == Apply(layers[i + 1], x) IN
       IF r.ok
       THEN /\ x' = r
            /\ i' = i + 1
            /\ printed' = Append(printed, <<layers[i + 1].kind, r.shape>>)
            /\ pc' = pc
       ELSE /\ pc' = "raised"
            /\ UNCHANGED <<x, i, printed>>
    /\ UNCHANGED <<call, shape, num_classes, layers, output>>
    /\ MainFrame

\* run_tests: return x
RunTestsReturn ==
    /\ call = "run_tests" /\ pc = "loop" /\ i = Len(layers)
    /\ output' = x
    /\ pc' = "returned"
    /\ UNCHANGED <<call, shape, num_classes, layers, x, i, printed>>
    /\ MainFrame

\* model = Lenet(num_classes)
CallLenet ==
    /\ call = "forward" /\ pc = "start"
    /\ IF LenetConstructs(num_classes)
       THEN layers' = LenetLayers(num_classes) /\ pc' = "built"
       ELSE layers' = layers /\ pc' = "raised"
    /\ UNCHANGED <<call, shape, num_classes, x, i, printed, output>>
    /\ MainFrame

\* output = model(data)
CallForward ==
    /\ call = "forward" /\ pc = "built"
    /\ LET r == LenetForward(layers, x) IN
       IF r.ok THEN output' = r /\ pc' = "returned"
       ELSE output' = output /\ pc' = "raised"
    /\ UNCHANGED <<call, shape, num_classes, layers, x, i, printed>>
    /\ MainFrame

MainNext ==
    \/ RunTestsRandn
    \/ RunTestsLenet
    \/ RunTestsLayer
    \/ RunTestsReturn
    \/ CallLenet
    \/ CallForward

(***************************************************************************)
(* Claims about the network's shapes (Spec).                               *)
(***************************************************************************)
\* the input contract: (batch, 1, 32, 32)
Contract(s) ==
    Len(s) = 4 /\ s[2] = 1 /\ s[3] = ImageSize /\ s[4] = ImageSize

\* the table of the specification: the shape after each of the 14 stages
ShapeTable(b, n) ==
    << <<b, 6, 28, 28>>, <<b, 6, 28, 28>>, <<b, 6, 14, 14>>, <<b, 6, 14, 14>>,
       <<b, 16, 10, 10>>, <<b, 16, 10, 10>>, <<b, 16, 5, 5>>, <<b, 16, 5, 5>>,
       <<b, 400>>, <<b, 120>>, <<b, 120>>, <<b, 84>>, <<b, 84>>, <<b, n>> >>

\* C1: for every batch size b >= 1 and class count >= 1, a (b, 1, 32, 32)
\* tensor passed through the 14 stages in order has, after each stage, the
\* shape of the table, ending in (b, num_classes); num_classes changes the
\* last width only.
C1_ShapePropagation ==
    (Contract(shape) /\ num_classes >= 1) =>
        /\ pc # "raised"
        /\ \A k \in 1..Len(printed) :
              /\ printed[k][2] = ShapeTable(shape[1], num_classes)[k]
              /\ k < 14 => \A n \in NumClassesSet :
                              printed[k][2] = ShapeTable(shape[1], n)[k]
        /\ (pc = "returned" /\ call = "run_tests") => Len(printed) = 14
        /\ pc = "returned" => output.shape = <<shape[1], num_classes>>

C1_Witness ==
    /\ call = "run_tests" /\ pc = "returned"
    /\ shape = <<MaxBatch, 1, ImageSize, ImageSize>> /\ num_classes = 47
    /\ Len(printed) = 14
    /\ printed[14][2] = <<MaxBatch, 47>>

\* C2: every input whose shape disagrees with (batch, 1, 32, 32) makes the
\* forward pass fail; no such input yields a class-score output.
C2_MismatchRaises ==
    (call = "forward" /\ pc = "returned") => Contract(shape)

\* C4: constructing Lenet with num_classes <= 0 fails; no Lenet with an
\* output width <= 0 is ever created.
C4_NonPositiveClassesRaise ==
    (layers # <<>>) => num_classes > 0

\* C6: the last stage is F7, a dense layer 84 -> num_classes with a bias and
\* no activation; nothing is applied after it, and what forward returns is
\* F7's output on the A6 output.
C6_FinalAffine ==
    (call = "forward" /\ pc = "returned") =>
        LET a6 == Sequential(SubSeq(layers, 1, 13), x)
            n == Len(output.ops)
        IN /\ Len(layers) = 14
           /\ layers[14].name = "f7" /\ layers[14].kind = "Linear"
           /\ layers[14].a = 84 /\ layers[14].b = num_classes
           /\ a6.ok /\ a6.shape = <<shape[1], 84>>
           /\ SubSeq(a6.ops, Len(a6.ops) - 2, Len(a6.ops))
                 = <<"linear", "tanh", "mulA">>
           /\ output = Linear(84, num_classes, TRUE, a6)
           /\ output.ops = Append(a6.ops, "affine")
           /\ output.shape = <<shape[1], num_classes>>

C6_Witness ==
    /\ call = "forward" /\ pc = "returned"
    /\ num_classes = 10
    /\ output.shape = <<1, 10>>
    /\ output.ops[Len(output.ops)] = "affine"

\* the class names of the 14 stages, in the order of the Sequential block
StageOrder ==
    << "Conv2d", "LenetSigmoid", "LenetPool", "LenetSigmoid",
       "Conv2d", "LenetSigmoid", "LenetPool", "LenetSigmoid",
       "Flatten", "Linear", "LenetSigmoid", "Linear", "LenetSigmoid", "Linear" >>

\* C9: run_tests builds a Lenet and a random tensor, applies the 14 stages
\* one at a time in the fixed order, each on the previous stage's output,
\* and reports one (stage, shape) pair after each; for a valid shape it
\* reports exactly 14 pairs in that order, raises nothing and terminates.
C9_RunTests ==
    call = "run_tests" =>
        /\ Len(printed) = i
        /\ \A k \in 1..Len(printed) :
              /\ printed[k][1] = StageOrder[k]
              /\ printed[k][2] =
                    Sequential(SubSeq(layers, 1, k), Tensor(shape, <<"randn">>)).shape
        /\ (pc = "loop" /\ i > 0) => x.shape = printed[i][2]
        /\ pc = "returned" => (i = 14 /\ output = x)
        /\ (Contract(shape) /\ num_classes >= 1) =>
              /\ pc # "raised"
              /\ pc = "returned" \/ ENABLED MainNext

C9_Witness ==
    /\ call = "run_tests" /\ pc = "returned"
    /\ Contract(shape) /\ num_classes = 10
    /\ Len(printed) = 14
    /\ printed[1] = <<"Conv2d", <<shape[1], 6, 28, 28>>>>
    /\ printed[14] = <<"Linear", <<shape[1], 10>>>>

\* the 4-D shapes that pass every stage-local check: one channel for C1,
\* width 32 for the remap of A1, and a height that C1, S2, C3 and S4 bring to
\* 5, the only height with 16 * 5 * 5 = 400 values after Flatten
Accepted(s) ==
    /\ Len(s) = 4
    /\ s[2] = 1
    /\ s[4] = ImageSize
    /\ ImageSize <= s[3] /\ s[3] <= ImageSize + 3

\* C12: a 4-D input (b, c, H, W) makes Lenet.forward complete without
\* error exactly when c = 1, W = 32 and 32 <= H <= 35, and the result then
\* has the shape (b, num_classes); every other 4-D input raises.
C12_AcceptedShapes ==
    (call = "forward" /\ pc \in {"returned", "raised"} /\ layers # <<>>
       /\ Len(shape) = 4) =>
        /\ (pc = "returned") <=> Accepted(shape)
        /\ pc = "returned" => (output.ok /\ output.shape = <<shape[1], num_classes>>)

\* the tallest accepted input has been scored
C12_Witness ==
    /\ call = "forward" /\ pc = "returned"
    /\ shape = <<MaxBatch, 1, ImageSize + 3, ImageSize>>
    /\ num_classes = 10
    /\ output.shape = <<MaxBatch, 10>>

(***************************************************************************)
(* LenetPool on values (SpecPool).  One (batch, channel) plane of the      *)
(* input is a matrix of integers, a sequence of H rows of W values; the    *)
(* pooling and the remap act on every plane alike.                         *)
(***************************************************************************)
MaxH == 3
MaxW == 4
MaxCells == 12
MaxFeatures == 2

RaisedV == [ok |-> FALSE, val |-> <<>>]

Value(v) == [ok |-> TRUE, val |-> v]

\* the values of the planes tried: mixed signs
PlaneValues == {-3, 2}

PlaneSizes == {hw \in (1..MaxH) \X (1..MaxW) : hw[1] * hw[2] <= MaxCells}

Planes == UNION {[1..hw[1] -> [1..hw[2] -> PlaneValues]] : hw \in PlaneSizes}

\* the window of the specification's example: 1, 2, 3, 4
ExamplePlane == << <<1, 2>>, <<3, 4>> >>

Sign(n) == IF n > 0 THEN 1 ELSE IF n < 0 THEN -1 ELSE 0

Abs(n) == IF n < 0 THEN -n ELSE n

Relu(n) == IF n > 0 THEN n ELSE 0

RECURSIVE Pow(_, _)
Pow(n, e) == IF e = 0 THEN 1 ELSE n * Pow(n, e - 1)

RECURSIVE SumTo(_, _)
\* f[1] + ... + f[n]
SumTo(f, n) == IF n = 0 THEN 0 ELSE f[n] + SumTo(f, n - 1)

\* F.avg_pool2d's window: the sum of the k*k values of the window (r, c),
\* which the average divides by k*k
WindowTotal(m, r, c, k, stride) ==
    SumTo([d \in 1..(k * k) |->
             m[(r - 1) * stride + ((d - 1) \div k) + 1]
              [(c - 1) * stride + ((d - 1) % k) + 1]], k * k)

\* average pooling: the window's total divided by k*k and not scaled back
AvgPoolValue(p, k, stride, m) ==
    LET h == Len(m)
        w == Len(m[1])
    IN IF h < k \/ w < k THEN RaisedV
       ELSE Value([r \in 1..PoolOut(h, k, stride) |->
                     [c \in 1..PoolOut(w, k, stride) |->
                        WindowTotal(m, r, c, k, stride) \div (k * k)]])

\* F.lp_pool2d with norm_type p: out = avg_pool2d(x.pow(p), k, stride), then
\* (sign(out) * relu(abs(out))).mul(k * k).pow(1 / p).  The average is kept
\* as the window's total over k*k; p is 1 here, so the last power is the
\* identity.
LPPoolValue(p, k, stride, m) ==
    LET h == Len(m)
        w == Len(m[1])
        powered == [r \in 1..h |-> [c \in 1..w |-> Pow(m[r][c], p)]]
    IN IF h < k \/ w < k THEN RaisedV
       ELSE Value([r \in 1..PoolOut(h, k, stride) |->
                     [c \in 1..PoolOut(w, k, stride) |->
                        LET total == WindowTotal(powered, r, c, k, stride)
                        IN (Sign(total) * Relu(Abs(total)) * (k * k)) \div (k * k)]])

\* nn.Linear on values: every row's last axis, weight times input plus bias
LinearValue(lin, in_features, out_features, t) ==
    IF ~t.ok THEN RaisedV
    ELSE IF \E r \in 1..Len(t.val) : Len(t.val[r]) # in_features THEN RaisedV
    ELSE Value([r \in 1..Len(t.val) |->
                  [j \in 1..out_features |->
                     SumTo([k \in 1..in_features |->
                              lin.weight[j][k] * t.val[r][k]], in_features)
                     + (IF lin.bias = <<>> THEN 0 ELSE lin.bias[j])]])

\* the parameters tried for an (out, in) remap: the identity without a bias,
\* and a mixing matrix with a bias
LinearParams(in_features, out_features) ==
    { [weight |-> [j \in 1..out_features |->
                     [k \in 1..in_features |-> IF j = k THEN d ELSE 1 - d]],
       bias |-> [j \in 1..out_features |-> 1 - d]] : d \in {1, -1} }

PoolInit ==
    /\ pool_pc = "start"
    /\ pool_args \in {[kernel_size |-> 2, sum_stride |-> 2,
                       in_features |-> f, out_features |-> f] :
                         f \in 1..MaxFeatures}
    /\ pool_x \in Planes \cup {ExamplePlane}
    /\ pool_lin = <<>>
    /\ pool_sum = RaisedV
    /\ pool_out = RaisedV

\* LenetPool.__init__
PoolNew ==
    /\ pool_pc = "start"
    /\ pool_lin' \in LinearParams(pool_args.in_features, pool_args.out_features)
    /\ pool_pc' = "built"
    /\ UNCHANGED <<pool_args, pool_x, pool_sum, pool_out>>
    /\ PoolFrame

\* LenetPool.forward, first module of self.layers: self.sum_pool
PoolSumPool ==
    /\ pool_pc = "built"
    /\ LET r == LPPoolValue(1, pool_args.kernel_size, pool_args.sum_stride, pool_x)
       IN IF r.ok THEN pool_sum' = r /\ pool_pc' = "pooled"
          ELSE pool_sum' = pool_sum /\ pool_pc' = "raised"
    /\ UNCHANGED <<pool_args, pool_x, pool_lin, pool_out>>
    /\ PoolFrame

\* LenetPool.forward, second module of self.layers: self.linear
PoolLinear ==
    /\ pool_pc = "pooled"
    /\ LET r == LinearValue(pool_lin, pool_args.in_features,
                            pool_args.out_features, pool_sum)
       IN IF r.ok THEN pool_out' = r /\ pool_pc' = "returned"
          ELSE pool_out' = pool_out /\ pool_pc' = "raised"
    /\ UNCHANGED <<pool_args, pool_x, pool_lin, pool_sum>>
    /\ PoolFrame

PoolNext == PoolNew \/ PoolSumPool \/ PoolLinear

PoolH == Len(pool_x)

PoolW == Len(pool_x[1])

\* C3: a LenetPool (window 2, stride 2) given an input whose height or width
\* is odd fails instead of returning a pooled output.
C3_OddRejected ==
    pool_pc \in {"pooled", "returned"} => (PoolH % 2 = 0 /\ PoolW % 2 = 0)

\* C5: for H and W even the pre-remap output of the pooling step has shape
\* (H/2, W/2) and its element (r, c) is the plain sum of the four inputs of
\* rows 2r-1, 2r and columns 2c-1, 2c (counted from 1), for negative and
\* mixed-sign values too; the window 1, 2, 3, 4 gives 10.
C5_PoolSum ==
    (pool_pc \in {"pooled", "returned"} /\ PoolH % 2 = 0 /\ PoolW % 2 = 0) =>
        /\ pool_sum.ok
        /\ Len(pool_sum.val) = PoolH \div 2
        /\ \A r \in 1..(PoolH \div 2) :
              /\ Len(pool_sum.val[r]) = PoolW \div 2
              /\ \A c \in 1..(PoolW \div 2) :
                    pool_sum.val[r][c] =
                        pool_x[2 * r - 1][2 * c - 1] + pool_x[2 * r - 1][2 * c]
                        + pool_x[2 * r][2 * c - 1] + pool_x[2 * r][2 * c]
        /\ pool_x = ExamplePlane => pool_sum.val = << <<10>> >>

C5_Witness ==
    /\ pool_pc = "returned"
    /\ pool_x = << <<-3, 2, 2, 2>>, <<-3, -3, 2, 2>> >>
    /\ pool_sum.val = << <<-7, 8>> >>

(***************************************************************************)
(* LenetSigmoid on values (SpecAct).  The input is a vector of small       *)
(* integers and S a matrix of small integers, so S x is exact.  The        *)
(* values after tanh and after the scaling are float32 numbers in [1/2, 2) *)
(* or zero, held as integers: tanh's in units of 2^-24, the output's in    *)
(* units of 2^-23 (the spacing of float32 in [1/2, 1) and in [1, 2)).      *)
(***************************************************************************)
MaxAbsX == 6

\* self.A = 1.7159, as the ratio ANum / ADen
ANum == 17159
ADen == 10000

Two12 == Pow(2, 12)

Two23 == Pow(2, 23)

Two24 == Pow(2, 24)

\* floor(a * b / d) and the remainder, without forming a * b
FloorMulDiv(a, b, d) == a * (b \div d) + (a * (b % d)) \div d

RemMulDiv(a, b, d) == (a * (b % d)) % d

\* round to nearest, ties to even, of q + r / d
RoundEven(q, r, d) ==
    IF 2 * r > d \/ (2 * r = d /\ q % 2 = 1) THEN q + 1 ELSE q

\* the float32 nearest to 1.7159, in units of 2^-23: the scalar A as the
\* float32 multiplication reads it
A32 == RoundEven(FloorMulDiv(ANum, Two23, ADen), RemMulDiv(ANum, Two23, ADen), ADen)

\* nn.Tanh() in float32 on an integer n: the multiple of 2^-24 nearest to
\* tanh(|n|) for |n| = 0..9; from |n| = 10 on the nearest float32 is 1.0
TanhTable ==
    << 0, 12777430, 16173699, 16694249, 16765964,
       16775693, 16777010, 16777188, 16777212, 16777215 >>

\* the activation left out: the remapped input itself, in units of 2^-24
TanhMissing(n) == n * Two24

Tanh32(n) ==
    Sign(n) * (IF Abs(n) >= Len(TanhTable) THEN Two24 ELSE TanhTable[Abs(n) + 1])

\* self.A*x: the float32 product A * t for t = n / 2^24, in units of 2^-23:
\* the exact product A32 * n / 2^24 by 12-bit limbs, rounded to nearest even
MulA32(n) ==
    LET a1 == A32 \div Two12
        a0 == A32 % Two12
        b1 == Abs(n) \div Two12
        b0 == Abs(n) % Two12
        mid == a1 * b0 + a0 * b1
        low == (mid % Two12) * Two12 + a0 * b0
    IN Sign(n) * RoundEven(a1 * b1 + (mid \div Two12) + (low \div Two24),
                           low % Two24, Two24)

\* whether m / 2^23 is strictly below 1.7159, the number ANum / ADen itself
BelowA(m) ==
    \/ m < FloorMulDiv(ANum, Two23, ADen)
    \/ m = FloorMulDiv(ANum, Two23, ADen) /\ RemMulDiv(ANum, Two23, ADen) > 0

\* self.act(x): nn.Tanh on every element
TanhValue(t) ==
    IF ~t.ok THEN RaisedV
    ELSE Value([r \in 1..Len(t.val) |->
                  [c \in 1..Len(t.val[r]) |-> Tanh32(t.val[r][c])]])

\* self.A*x on every element
MulAValue(t) ==
    IF ~t.ok THEN RaisedV
    ELSE Value([r \in 1..Len(t.val) |->
                  [c \in 1..Len(t.val[r]) |-> MulA32(t.val[r][c])]])

\* the weights tried for S
SValues == {-2, 0, 1}

ActInit ==
    /\ act_pc = "start"
    /\ act_args = [in_features |-> 2, out_features |-> 2]
    /\ act_x \in {Value(<<v>>) : v \in [1..2 -> (-MaxAbsX)..MaxAbsX]
                                       \cup [1..1 -> (-MaxAbsX)..MaxAbsX]}
    /\ act_S = <<>>
    /\ act_z = RaisedV
    /\ act_t = RaisedV
    /\ act_y = RaisedV

\* LenetSigmoid.__init__
ActNew ==
    /\ act_pc = "start"
    /\ act_S' \in {[weight |-> w, bias |-> <<>>] :
                      w \in [1..act_args.out_features ->
                               [1..act_args.in_features -> SValues]]}
    /\ act_pc' = "built"
    /\ UNCHANGED <<act_args, act_x, act_z, act_t, act_y>>
    /\ ActFrame

\* LenetSigmoid.forward: x = self.S(x)
ActS ==
    /\ act_pc = "built"
    /\ LET r == LinearValue(act_S, act_args.in_features,
                            act_args.out_features, act_x)
       IN IF r.ok THEN act_z' = r /\ act_pc' = "S"
          ELSE act_z' = act_z /\ act_pc' = "raised"
    /\ UNCHANGED <<act_args, act_x, act_S, act_t, act_y>>
    /\ ActFrame

\* LenetSigmoid.forward: x = self.act(x)
ActTanh ==
    /\ act_pc = "S"
    /\ act_t' = TanhValue(act_z)
    /\ act_pc' = "act"
    /\ UNCHANGED <<act_args, act_x, act_S, act_z, act_y>>
    /\ ActFrame

\* LenetSigmoid.forward: x = self.A*x; return x
ActMulA ==
    /\ act_pc = "act"
    /\ act_y' = MulAValue(act_t)
    /\ act_pc' = "returned"
    /\ UNCHANGED <<act_args, act_x, act_S, act_z, act_t>>
    /\ ActFrame

ActNext == ActNew \/ ActS \/ ActTanh \/ ActMulA

\* C8: LenetSigmoid computes A * f(S x) in that order (the bias-free remap
\* S, then the saturating f, then the scale A = 1.7159); every output
\* element lies strictly inside (-1.7159, 1.7159), is zero where the
\* remapped input is zero, and is monotonically increasing in the remapped
\* input (a larger remapped input never gives a smaller output).
C8_ScaledActivation ==
    act_pc = "returned" =>
        LET z == act_z.val[1]
            y == act_y.val[1]
        IN /\ act_z = LinearValue([weight |-> act_S.weight, bias |-> <<>>],
                                  act_args.in_features, act_args.out_features,
                                  act_x)
           /\ act_t = TanhValue(act_z)
           /\ act_y = MulAValue(act_t)
           /\ Len(y) = Len(z)
           /\ \A j \in 1..Len(y) :
                 /\ BelowA(Abs(y[j]))
                 /\ z[j] = 0 => y[j] = 0
                 /\ z[j] > 0 => y[j] > 0
                 /\ z[j] < 0 => y[j] < 0
                 /\ \A k \in 1..Len(y) : z[j] <= z[k] => y[j] <= y[k]

\* a run in which tanh saturates on one element and not on the other
C8_Witness ==
    /\ act_pc = "returned"
    /\ act_z.val[1] = <<-12, 1>>
    /\ act_t.val[1] = <<-Two24, 12777430>>
    /\ act_y.val[1] = <<-A32, 10962396>>

(***************************************************************************)
(* SpecCalls: repeated forward calls of one Lenet, between calls of        *)
(* model.train(), model.eval() and optimizer.step().                       *)
(***************************************************************************)
MaxCalls == 2
MaxSteps == 1

\* the batches given to the model: a batch of zeros and a random batch
CallData ==
    { Tensor(<<1, 1, ImageSize, ImageSize>>, <<"zeros">>),
      Tensor(<<MaxBatch, 1, ImageSize, ImageSize>>, <<"randn">>) }

\* the states of the default generator that random operations draw from
GeneratorStates == {0, 1}

\* whether a stage owns parameter tensors: the weight and bias of Conv2d and
\* Linear, S.weight of LenetSigmoid, linear.weight and linear.bias of
\* LenetPool; Flatten has none
HasParameters(layer) == layer.kind # "Flatten"

\* the stages of model.parameters(), in order
ParameterStages(mods) ==
    {mods[k].name : k \in {n \in 1..Len(mods) : HasParameters(mods[n])}}

\* what a module call sees and may change while it runs: the tensor x, the
\* module's training flag and parameters, the default generator, and the
\* list of what has been read from the module so far
Context(t, mode, prm, gen) ==
    [x |-> t, training |-> mode, params |-> prm, generator |-> gen, read |-> <<>>]

\* a stage with dropout on the output of each LenetSigmoid: in training mode
\* it draws a mask from the generator, in eval mode it is the identity
LayerForwardDropout(layer, ctx) ==
    LET y == Apply(layer, ctx.x)
        r == IF HasParameters(layer)
             THEN Append(ctx.read, <<layer.name, ctx.params[layer.name]>>)
             ELSE ctx.read
    IN IF ~ctx.x.ok THEN ctx
       ELSE IF layer.kind = "LenetSigmoid" /\ ctx.training /\ y.ok
            THEN [ctx EXCEPT !.x = Tensor(y.shape, Append(y.ops, "dropout")),
                             !.read = Append(r, <<"generator", ctx.generator>>),
                             !.generator = 1 - ctx.generator]
            ELSE [ctx EXCEPT !.x = y, !.read = r]

\* layer(x) inside a module call: the stage computes from x and from its own
\* parameters; no stage of Lenet looks at self.training, draws from the
\* generator or assigns to a parameter
LayerForward(layer, ctx) ==
    IF ~ctx.x.ok THEN ctx
    ELSE [ctx EXCEPT
            !.x = Apply(layer, ctx.x),
            !.read = IF HasParameters(layer)
                     THEN Append(@, <<layer.name, ctx.params[layer.name]>>)
                     ELSE @]

\* self.layers(x) inside a module call: the stages in order, each in the
\* context the previous one left
RECURSIVE SequentialCall(_, _)
SequentialCall(mods, ctx) ==
    IF mods = <<>> THEN ctx
    ELSE SequentialCall(Tail(mods), LayerForward(Head(mods), ctx))

\* model(data): Lenet.forward in the module's current state
LenetCall(mods, t, mode, prm, gen) == SequentialCall(mods, Context(t, mode, prm, gen))

CallsInit ==
    /\ rc_pc = "start"
    /\ rc_num_classes \in {n \in NumClassesSet : n >= 1}
    /\ rc_layers = <<>>
    /\ training = TRUE
    /\ params = <<>>
    /\ generator \in GeneratorStates
    /\ calls = <<>>

\* model = Lenet(num_classes): a new nn.Module is in training mode; the
\* constructors of Conv2d and Linear draw the initial parameters from the
\* default generator, which moves on (also when f7, the last stage built,
\* raises on a negative size after the earlier stages have drawn theirs)
CallsLenet ==
    /\ rc_pc = "start"
    /\ IF LenetConstructs(rc_num_classes)
       THEN /\ rc_layers' = LenetLayers(rc_num_classes)
            /\ params' = [s \in ParameterStages(LenetLayers(rc_num_classes)) |-> 0]
            /\ rc_pc' = "built"
       ELSE rc_layers' = rc_layers /\ params' = params /\ rc_pc' = "raised"
    /\ training' = TRUE
    /\ generator' = 1 - generator
    /\ UNCHANGED <<rc_num_classes, calls>>
    /\ CallsFrame

\* model.train()
ModelTrain ==
    /\ rc_pc = "built"
    /\ training' = TRUE
    /\ UNCHANGED <<rc_pc, rc_num_classes, rc_layers, params, generator, calls>>
    /\ CallsFrame

\* model.eval()
ModelEval ==
    /\ rc_pc = "built"
    /\ training' = FALSE
    /\ UNCHANGED <<rc_pc, rc_num_classes, rc_layers, params, generator, calls>>
    /\ CallsFrame

\* optimizer.step(): Adam over model.parameters() writes every parameter
OptimizerStep ==
    /\ rc_pc = "built"
    /\ \A s \in DOMAIN params : params[s] < MaxSteps
    /\ params' = [s \in DOMAIN params |-> params[s] + 1]
    /\ UNCHANGED <<rc_pc, rc_num_classes, rc_layers, training, generator, calls>>
    /\ CallsFrame

\* a random operation outside the model (torch.randn, the shuffling of the
\* training loader) moves the default generator on
DrawRandom ==
    /\ rc_pc = "built"
    /\ generator' = 1 - generator
    /\ UNCHANGED <<rc_pc, rc_num_classes, rc_layers, training, params, calls>>
    /\ CallsFrame

\* output = model(data): the call runs in the module's current state and
\* leaves the state in which its last stage ended
ModelCall ==
    /\ rc_pc = "built" /\ Len(calls) < MaxCalls
    /\ \E data \in CallData :
          LET r == LenetCall(rc_layers, data, training, params, generator)
          IN /\ training' = r.training
             /\ params' = r.params
             /\ generator' = r.generator
             /\ calls' = Append(calls,
                                [data |-> data,
                                 before |-> [training |-> training, params |-> params,
                                             generator |-> generator],
                                 out |-> [x |-> r.x, read |-> r.read],
                                 after |-> [training |-> r.training,
                                            params |-> r.params,
                                            generator |-> r.generator]])
    /\ UNCHANGED <<rc_pc, rc_num_classes, rc_layers>>
    /\ CallsFrame

CallsNext ==
    CallsLenet \/ ModelTrain \/ ModelEval \/ OptimizerStep \/ DrawRandom \/ ModelCall

\* C7: with the parameters held fixed, two forward calls on the same input
\* batch return identical outputs, of shape (1, num_classes) for the
\* (1, 1, 32, 32) batch of zeros, whether the model is in train or eval mode
\* and whatever the state of the random number generator; the output is
\* computed from the parameters as they are at the call, and a forward call
\* changes no parameter and no state a later call reads (mode, generator).
C7_Deterministic ==
    \A a \in 1..Len(calls) :
        /\ calls[a].after = calls[a].before
        /\ calls[a].out.x.ok
        /\ calls[a].out.x.shape = <<calls[a].data.shape[1], rc_num_classes>>
        /\ Len(calls[a].out.read) = Cardinality(ParameterStages(rc_layers))
        /\ \A k \in 1..Len(calls[a].out.read) :
              /\ calls[a].out.read[k][1] \in ParameterStages(rc_layers)
              /\ calls[a].out.read[k][2] = calls[a].before.params[calls[a].out.read[k][1]]
        /\ \A b \in 1..Len(calls) :
              (calls[a].data = calls[b].data
                 /\ calls[a].before.params = calls[b].before.params)
                  => calls[a].out = calls[b].out

\* the batch of zeros, called in train mode and again in eval mode after the
\* generator has moved on, with the parameters of the first optimizer step
C7_Witness ==
    /\ Len(calls) = 2
    /\ calls[1].data = Tensor(<<1, 1, ImageSize, ImageSize>>, <<"zeros">>)
    /\ calls[2].data = calls[1].data
    /\ calls[1].before.training /\ ~calls[2].before.training
    /\ calls[1].before.generator # calls[2].before.generator
    /\ calls[1].before.params = calls[2].before.params
    /\ calls[1].before.params["f7"] = 1
    /\ calls[2].out.x.shape = <<1, rc_num_classes>>
    /\ calls[2].out = calls[1].out

(***************************************************************************)
(* SpecDriver: the last cell of the notebook, one action per statement.    *)
(* The data sets are external: their sizes are drawn from small sets.      *)
(***************************************************************************)
TrainSize == 300
TestSize == 300

\* the hyperparameters of the driver
epochs == 20
batch_size == 128

\* len(loader) for a data set of n samples: the last batch may be short
NumBatches(n) == (n + batch_size - 1) \div batch_size

\* the size of batch k (from 1) of a data set of n samples
BatchLen(n, k) == IF k * batch_size <= n THEN batch_size ELSE n - (k - 1) * batch_size

NoEval == [epochs |-> -1, params |-> -1, steps |-> -1]

NoAccuracy == [num |-> -1, den |-> 1]

DrvInit ==
    /\ d_pc = "start"
    /\ d_train_size \in {0, batch_size, TrainSize}
    /\ d_test_size \in {0, 1, batch_size, TestSize}
    /\ d_created = 0
    /\ d_params = 0
    /\ d_training = FALSE
    /\ d_grad = TRUE
    /\ d_epoch = 0
    /\ d_batch = 0
    /\ d_steps = 0
    /\ d_loss_terms = 0
    /\ d_eval = NoEval
    /\ d_tbatch = 0
    /\ d_correct = 0
    /\ d_total = 0
    /\ d_fwd = 0
    /\ d_bwd = 0
    /\ d_accuracy = NoAccuracy

\* train_loader = DataLoader(train_dataset, batch_size, shuffle=True);
\* test_loader = DataLoader(test_dataset, batch_size, shuffle=False): the
\* RandomSampler of the shuffled loader raises ValueError on an empty data
\* set; the sequential sampler of the test loader accepts one
DrvLoaders ==
    /\ d_pc = "start"
    /\ d_pc' = IF d_train_size = 0 THEN "raised" ELSE "model"
    /\ UNCHANGED <<d_train_size, d_test_size, d_created, d_params, d_training,
                   d_grad, d_epoch, d_batch, d_steps, d_loss_terms, d_eval,
                   d_tbatch, d_correct, d_total, d_fwd, d_bwd, d_accuracy>>
    /\ DrvFrame

\* model = Lenet(num_classes).to(device): the parameters are created
DrvLenet ==
    /\ d_pc = "model"
    /\ d_created' = d_created + 1
    /\ d_training' = TRUE
    /\ d_pc' = "optimizer"
    /\ UNCHANGED <<d_train_size, d_test_size, d_params, d_grad, d_epoch, d_batch,
                   d_steps, d_loss_terms, d_eval, d_tbatch, d_correct, d_total,
                   d_fwd, d_bwd, d_accuracy>>
    /\ DrvFrame

\* criterion = nn.CrossEntropyLoss(); optimizer = optim.Adam(model.parameters())
DrvOptimizer ==
    /\ d_pc = "optimizer"
    /\ d_pc' = "epoch"
    /\ UNCHANGED <<d_train_size, d_test_size, d_created, d_params, d_training,
                   d_grad, d_epoch, d_batch, d_steps, d_loss_terms, d_eval,
                   d_tbatch, d_correct, d_total, d_fwd, d_bwd, d_accuracy>>
    /\ DrvFrame

\* for epoch in range(epochs): model.train(); total_loss = 0
DrvTrain ==
    /\ d_pc = "epoch" /\ d_epoch < epochs
    /\ d_training' = TRUE
    /\ d_loss_terms' = 0
    /\ d_batch' = 0
    /\ d_pc' = "batch"
    /\ UNCHANGED <<d_train_size, d_test_size, d_created, d_params, d_grad, d_epoch,
                   d_steps, d_eval, d_tbatch, d_correct, d_total, d_fwd, d_bwd,
                   d_accuracy>>
    /\ DrvFrame

\* for batch_idx, (data, target) in ...: optimizer.zero_grad()
DrvZeroGrad ==
    /\ d_pc = "batch" /\ d_batch < NumBatches(d_train_size)
    /\ d_pc' = "forward"
    /\ UNCHANGED <<d_train_size, d_test_size, d_created, d_params, d_training,
                   d_grad, d_epoch, d_batch, d_steps, d_loss_terms, d_eval,
                   d_tbatch, d_correct, d_total, d_fwd, d_bwd, d_accuracy>>
    /\ DrvFrame

\* output = model(data)
DrvForward ==
    /\ d_pc = "forward"
    /\ d_fwd' = d_fwd + 1
    /\ d_pc' = "loss"
    /\ UNCHANGED <<d_train_size, d_test_size, d_created, d_params, d_training,
                   d_grad, d_epoch, d_batch, d_steps, d_loss_terms, d_eval,
                   d_tbatch, d_correct, d_total, d_bwd, d_accuracy>>
    /\ DrvFrame

\* loss = criterion(output, target); total_loss += loss.item()
DrvLoss ==
    /\ d_pc = "loss"
    /\ d_loss_terms' = d_loss_terms + 1
    /\ d_pc' = "backward"
    /\ UNCHANGED <<d_train_size, d_test_size, d_created, d_params, d_training,
                   d_grad, d_epoch, d_batch, d_steps, d_eval, d_tbatch, d_correct,
                   d_total, d_fwd, d_bwd, d_accuracy>>
    /\ DrvFrame

\* a backward pass that runs twice on the batch before the step
DrvBackwardTwice ==
    /\ d_pc = "backward"
    /\ d_bwd' = d_bwd + 2
    /\ d_pc' = "step"
    /\ UNCHANGED <<d_train_size, d_test_size, d_created, d_params, d_training,
                   d_grad, d_epoch, d_batch, d_steps, d_loss_terms, d_eval,
                   d_tbatch, d_correct, d_total, d_fwd, d_accuracy>>
    /\ DrvFrame

\* loss.backward(): writes the gradients, not the parameters
DrvBackward ==
    /\ d_pc = "backward"
    /\ d_bwd' = d_bwd + 1
    /\ d_pc' = "step"
    /\ UNCHANGED <<d_train_size, d_test_size, d_created, d_params, d_training,
                   d_grad, d_epoch, d_batch, d_steps, d_loss_terms, d_eval,
                   d_tbatch, d_correct, d_total, d_fwd, d_accuracy>>
    /\ DrvFrame

\* optimizer.step(): writes the parameters; the batch is done
DrvStep ==
    /\ d_pc = "step"
    /\ d_params' = d_params + 1
    /\ d_steps' = d_steps + 1
    /\ d_batch' = d_batch + 1
    /\ d_fwd' = 0
    /\ d_bwd' = 0
    /\ d_pc' = "batch"
    /\ UNCHANGED <<d_train_size, d_test_size, d_created, d_training, d_grad,
                   d_epoch, d_loss_terms, d_eval, d_tbatch, d_correct, d_total,
                   d_accuracy>>
    /\ DrvFrame

\* print(... total_loss/len(train_loader) ...): the loader was built, so
\* len(train_loader) >= 1
DrvEpochEnd ==
    /\ d_pc = "batch" /\ d_batch = NumBatches(d_train_size)
    /\ d_pc' = "epoch"
    /\ d_epoch' = d_epoch + 1
    /\ UNCHANGED <<d_train_size, d_test_size, d_created, d_params, d_training,
                   d_grad, d_batch, d_steps, d_loss_terms, d_eval, d_tbatch,
                   d_correct, d_total, d_fwd, d_bwd, d_accuracy>>
    /\ DrvFrame

\* after the last epoch: model.eval(); correct = 0; total = 0
DrvEval ==
    /\ d_pc = "epoch" /\ d_epoch = epochs
    /\ d_training' = FALSE
    /\ d_correct' = 0
    /\ d_total' = 0
    /\ d_eval' = [epochs |-> d_epoch, params |-> d_params, steps |-> d_steps]
    /\ d_pc' = "no_grad"
    /\ UNCHANGED <<d_train_size, d_test_size, d_created, d_params, d_grad, d_epoch,
                   d_batch, d_steps, d_loss_terms, d_tbatch, d_fwd, d_bwd,
                   d_accuracy>>
    /\ DrvFrame

\* with torch.no_grad():
DrvNoGrad ==
    /\ d_pc = "no_grad"
    /\ d_grad' = FALSE
    /\ d_pc' = "test"
    /\ UNCHANGED <<d_train_size, d_test_size, d_created, d_params, d_training,
                   d_epoch, d_batch, d_steps, d_loss_terms, d_eval, d_tbatch,
                   d_correct, d_total, d_fwd, d_bwd, d_accuracy>>
    /\ DrvFrame

\* a test loop that also steps the optimizer
DrvTestForwardSteps ==
    /\ d_pc = "test" /\ d_tbatch < NumBatches(d_test_size)
    /\ d_fwd' = d_fwd + 1
    /\ d_pc' = "count"
    /\ d_params' = d_params + 1
    /\ UNCHANGED <<d_train_size, d_test_size, d_created, d_training,
                   d_grad, d_epoch, d_batch, d_steps, d_loss_terms, d_eval,
                   d_tbatch, d_correct, d_total, d_bwd, d_accuracy>>
    /\ DrvFrame

\* for data, target in test_loader: output = model(data): a forward pass
\* with no gradient and no step after it
DrvTestForward ==
    /\ d_pc = "test" /\ d_tbatch < NumBatches(d_test_size)
    /\ d_fwd' = d_fwd + 1
    /\ d_pc' = "count"
    /\ UNCHANGED <<d_train_size, d_test_size, d_created, d_params, d_training,
                   d_grad, d_epoch, d_batch, d_steps, d_loss_terms, d_eval,
                   d_tbatch, d_correct, d_total, d_bwd, d_accuracy>>
    /\ DrvFrame

\* a count that adds the loader's batch_size, not the size of the batch read
DrvCountFullBatch ==
    /\ d_pc = "count"
    /\ d_total' = d_total + batch_size
    /\ \E right \in 0..BatchLen(d_test_size, d_tbatch + 1) :
          d_correct' = d_correct + right
    /\ d_tbatch' = d_tbatch + 1
    /\ d_pc' = "test"
    /\ UNCHANGED <<d_train_size, d_test_size, d_created, d_params, d_training,
                   d_grad, d_epoch, d_batch, d_steps, d_loss_terms, d_eval, d_fwd,
                   d_bwd, d_accuracy>>
    /\ DrvFrame

\* _, predicted = torch.max(output, 1); total += target.size(0);
\* correct += (predicted == target).sum().item(): any number of the batch's
\* samples may be predicted right
DrvCount ==
    /\ d_pc = "count"
    /\ d_total' = d_total + BatchLen(d_test_size, d_tbatch + 1)
    /\ \E right \in 0..BatchLen(d_test_size, d_tbatch + 1) :
          d_correct' = d_correct + right
    /\ d_tbatch' = d_tbatch + 1
    /\ d_pc' = "test"
    /\ UNCHANGED <<d_train_size, d_test_size, d_created, d_params, d_training,
                   d_grad, d_epoch, d_batch, d_steps, d_loss_terms, d_eval, d_fwd,
                   d_bwd, d_accuracy>>
    /\ DrvFrame

\* the end of the with block: gradient tracking is enabled again
DrvExitNoGrad ==
    /\ d_pc = "test" /\ d_tbatch = NumBatches(d_test_size)
    /\ d_grad' = TRUE
    /\ d_pc' = "accuracy"
    /\ UNCHANGED <<d_train_size, d_test_size, d_created, d_params, d_training,
                   d_epoch, d_batch, d_steps, d_loss_terms, d_eval, d_tbatch,
                   d_correct, d_total, d_fwd, d_bwd, d_accuracy>>
    /\ DrvFrame

\* accuracy = 100 * correct / total; print(...): total = 0 divides by zero
DrvAccuracy ==
    /\ d_pc = "accuracy"
    /\ IF d_total = 0
       THEN d_pc' = "raised" /\ d_accuracy' = d_accuracy
       ELSE d_pc' = "done" /\ d_accuracy' = [num |-> 100 * d_correct, den |-> d_total]
    /\ UNCHANGED <<d_train_size, d_test_size, d_created, d_params, d_training,
                   d_grad, d_epoch, d_batch, d_steps, d_loss_terms, d_eval,
                   d_tbatch, d_correct, d_total, d_fwd, d_bwd>>
    /\ DrvFrame

DrvNext ==
    \/ DrvLoaders
    \/ DrvLenet
    \/ DrvOptimizer
    \/ DrvTrain
    \/ DrvZeroGrad
    \/ DrvForward
    \/ DrvLoss
    \/ DrvBackward
    \/ DrvStep
    \/ DrvEpochEnd
    \/ DrvEval
    \/ DrvNoGrad
    \/ DrvTestForward
    \/ DrvCount
    \/ DrvExitNoGrad
    \/ DrvAccuracy

\* the evaluation has started: model.eval() has run
InEvaluation == d_eval # NoEval

\* C10: the parameters are created once, when Lenet is constructed, and
\* written by optimizer.step() only, during the training epochs; the
\* evaluation starts after all epochs have finished and runs in eval mode
\* with gradient tracking disabled, and from its start to the end of the run
\* no optimizer step or other write to the parameters occurs.
C10_ParametersFrame ==
    /\ d_created = (IF d_pc \in {"start", "model"}
                         \/ (d_pc = "raised" /\ d_train_size = 0)
                      THEN 0 ELSE 1)
    /\ d_params = d_steps
    /\ ~InEvaluation => (d_epoch < epochs \/ d_pc = "epoch")
    /\ InEvaluation =>
          /\ d_eval.epochs = epochs /\ d_epoch = epochs
          /\ d_eval.steps = epochs * NumBatches(d_train_size)
          /\ ~d_training
          /\ d_params = d_eval.params /\ d_steps = d_eval.steps
    /\ d_pc \in {"test", "count"} => (InEvaluation /\ ~d_grad)

C10_Witness ==
    /\ d_pc = "done"
    /\ d_train_size = TrainSize /\ d_test_size = TestSize
    /\ d_steps = epochs * NumBatches(TrainSize)
    /\ d_params = d_eval.params
    /\ d_total = TestSize

\* the position of the training loop inside one batch, in program order
BatchOrder == <<"batch", "forward", "loss", "backward", "step">>

\* the passes made on the current batch since the previous optimizer.step()
PassesAt(p) ==
    CASE p = "forward" -> [fwd |-> 0, bwd |-> 0]
      [] p = "loss" -> [fwd |-> 1, bwd |-> 0]
      [] p = "backward" -> [fwd |-> 1, bwd |-> 0]
      [] p = "step" -> [fwd |-> 1, bwd |-> 1]
      [] OTHER -> [fwd |-> 0, bwd |-> 0]

\* one step of the training loop keeps the order zero_grad, forward, loss,
\* backward, step on one batch and writes the parameters in the step only
TrainingStep ==
    /\ \A k \in 2..(Len(BatchOrder) - 1) :
          d_pc = BatchOrder[k] =>
             /\ d_pc' = BatchOrder[k + 1]
             /\ d_batch' = d_batch /\ d_epoch' = d_epoch
             /\ d_params' = d_params /\ d_steps' = d_steps
    /\ d_pc' = "forward" => (d_pc = "batch" /\ d_batch' = d_batch)
    /\ d_pc' = "step" => d_pc = "backward"
    /\ d_fwd' # d_fwd => (d_pc = "forward" \/ d_pc = "step" \/ InEvaluation)
    /\ d_bwd' # d_bwd => (d_pc = "backward" \/ d_pc = "step")
    /\ (d_params' # d_params \/ d_steps' # d_steps) =>
          /\ d_pc = "step" /\ d_pc' = "batch"
          /\ d_fwd = 1 /\ d_bwd = 1
          /\ d_params' = d_params + 1 /\ d_steps' = d_steps + 1
          /\ d_batch' = d_batch + 1 /\ d_epoch' = d_epoch
          /\ d_fwd' = 0 /\ d_bwd' = 0

\* C11: in the training loop every batch is processed as the strict
\* sequence zero_grad, forward, loss, backward, optimizer.step, with at most
\* one forward/backward pass in flight: each optimizer.step() is preceded by
\* exactly one forward and one backward pass on the same batch since the
\* previous step, the parameters are never written between a forward pass
\* and its backward pass, and epochs * (number of training batches) steps
\* occur in total.
C11_TrainingSequence ==
    /\ [](/\ ~InEvaluation => (d_fwd = PassesAt(d_pc).fwd /\ d_fwd <= 1)
          /\ d_bwd = PassesAt(d_pc).bwd
          /\ d_bwd <= 1 /\ d_bwd <= d_fwd
          /\ d_pc \in {"forward", "loss", "backward", "step"} =>
                (d_training /\ d_epoch < epochs
                   /\ d_batch < NumBatches(d_train_size))
          /\ ~InEvaluation =>
                d_steps = d_epoch * NumBatches(d_train_size)
                            + (IF d_pc = "epoch" THEN 0 ELSE d_batch)
          /\ InEvaluation => d_steps = epochs * NumBatches(d_train_size))
    /\ [][TrainingStep]_vars

\* the last step of the last epoch is about to be taken, after one forward
\* and one backward pass on the last batch
C11_Witness ==
    /\ d_pc = "step"
    /\ d_train_size = TrainSize
    /\ d_epoch = epochs - 1
    /\ d_batch = NumBatches(TrainSize) - 1
    /\ d_fwd = 1 /\ d_bwd = 1
    /\ d_steps = epochs * NumBatches(TrainSize) - 1

\* the test samples read after k batches of the test loader
SamplesRead(k) ==
    IF k * batch_size <= d_test_size THEN k * batch_size ELSE d_test_size

\* one step of the evaluation: the counters change in the count of a test
\* batch only, total by the size of that batch, correct by at most as much
CountStep ==
    (d_total' # d_total \/ d_correct' # d_correct \/ d_tbatch' # d_tbatch) =>
        /\ d_pc = "count" /\ InEvaluation
        /\ d_tbatch' = d_tbatch + 1
        /\ d_total' = d_total + BatchLen(d_test_size, d_tbatch')
        /\ BatchLen(d_test_size, d_tbatch') >= 1
        /\ d_correct' >= d_correct
        /\ d_correct' - d_correct <= d_total' - d_total

\* C13: during evaluation 0 <= correct <= total after every test batch,
\* total grows by exactly the size of each batch and every test sample is
\* counted once, so that at the end total is the number of test samples and
\* the accuracy 100 * correct / total lies in [0, 100]; the accuracy is
\* defined only when the test set is non-empty (total > 0), and an empty
\* test set ends the run with a division by zero.
C13_EvaluationCounters ==
    /\ [](/\ 0 <= d_correct /\ d_correct <= d_total
          /\ d_total = SamplesRead(d_tbatch)
          /\ d_tbatch <= NumBatches(d_test_size)
          /\ d_pc \in {"accuracy", "done"} => d_total = d_test_size
          /\ d_pc = "done" =>
                /\ d_total > 0
                /\ d_accuracy = [num |-> 100 * d_correct, den |-> d_total]
                /\ 0 <= d_accuracy.num /\ d_accuracy.num <= 100 * d_accuracy.den
          /\ d_pc # "done" => d_accuracy = NoAccuracy
          /\ (d_pc = "raised" /\ InEvaluation) =>
                (d_test_size = 0 /\ d_total = 0))
    /\ [][CountStep]_vars

\* the whole test set, with its short last batch, has been counted and all
\* but one of its samples were predicted right
C13_Witness ==
    /\ d_pc = "done"
    /\ d_test_size = TestSize
    /\ d_tbatch = NumBatches(TestSize)
    /\ d_total = TestSize /\ d_correct = TestSize - 1
    /\ d_accuracy = [num |-> 100 * (TestSize - 1), den |-> TestSize]

(***************************************************************************)
(* The specifications.                                                     *)
(***************************************************************************)
MainIdle ==
    /\ call = "none" /\ shape = <<>> /\ num_classes = 0 /\ pc = "idle"
    /\ layers = <<>> /\ x = NoTensor /\ i = 0 /\ printed = <<>>
    /\ output = NoTensor

PoolIdle ==
    /\ pool_pc = "idle" /\ pool_args = <<>> /\ pool_x = <<>> /\ pool_lin = <<>>
    /\ pool_sum = RaisedV /\ pool_out = RaisedV

ActIdle ==
    /\ act_pc = "idle" /\ act_args = <<>> /\ act_x = RaisedV /\ act_S = <<>>
    /\ act_z = RaisedV /\ act_t = RaisedV /\ act_y = RaisedV

CallsIdle ==
    /\ rc_pc = "idle" /\ rc_num_classes = 0 /\ rc_layers = <<>>
    /\ training = FALSE /\ params = <<>> /\ generator = 0 /\ calls = <<>>

DrvIdle ==
    /\ d_pc = "idle" /\ d_train_size = 0 /\ d_test_size = 0 /\ d_created = 0
    /\ d_params = 0 /\ d_training = FALSE /\ d_grad = TRUE /\ d_epoch = 0
    /\ d_batch = 0 /\ d_steps = 0 /\ d_loss_terms = 0 /\ d_eval = NoEval
    /\ d_tbatch = 0 /\ d_correct = 0 /\ d_total = 0 /\ d_fwd = 0 /\ d_bwd = 0
    /\ d_accuracy = NoAccuracy

Init == MainInit /\ PoolIdle /\ ActIdle /\ CallsIdle /\ DrvIdle

Next == MainNext

Spec == Init /\ [][Next]_vars

InitPool == MainIdle /\ PoolInit /\ ActIdle /\ CallsIdle /\ DrvIdle

SpecPool == InitPool /\ [][PoolNext]_vars

InitAct == MainIdle /\ PoolIdle /\ ActInit /\ CallsIdle /\ DrvIdle

SpecAct == InitAct /\ [][ActNext]_vars

InitCalls == MainIdle /\ PoolIdle /\ ActIdle /\ CallsInit /\ DrvIdle

SpecCalls == InitCalls /\ [][CallsNext]_vars

InitDriver == MainIdle /\ PoolIdle /\ ActIdle /\ CallsIdle /\ DrvInit

SpecDriver == InitDriver /\ [][DrvNext]_vars

====
